---- MODULE Spec2Model ----
(***************************************************************************)
(* Model of the template rendering service (evalgo-org/templateservice).   *)
(*                                                                         *)
(* Four HTTP entry points are modelled, each from its handler's code:      *)
(*   "render"   handleRender            src/cmd/template.go:29-81          *)
(*   "semantic" handleSemanticAction    src/cmd/template.go:141-266        *)
(*   "rest"     renderTemplateREST      rest_handlers.go:29-87             *)
(*   "registry" handleSemanticAction    rest_handlers.go:101-186           *)
(*                                                                         *)
(* JSON values are tagged records; a JSON object is a function from its    *)
(* keys to values, an absent key being a key outside the DOMAIN.  Go       *)
(* strings are TLA+ strings, so len() is Len and + is \o.                  *)
(***************************************************************************)
EXTENDS Integers, Sequences, FiniteSets, TLC

VARIABLES pc, entry, req, lib, action, templateContent, parameters, ops, resp,
          run   \* the requests in flight, each with its handler's locals

vars == <<pc, entry, req, lib, action, templateContent, parameters, ops, resp, run>>

(***************************************************************************)
(* Bounds of the model.                                                    *)
(***************************************************************************)
MaxKeys  == 2   \* largest number of entries of a parameter mapping
MaxPairs == 2   \* largest length of a targetCollection list

(***************************************************************************)
(* JSON values (encoding/json decoding into interface{}).                  *)
(***************************************************************************)
JNull     == [t |-> "null"]
JStr(s)   == [t |-> "str", s |-> s]
JNum(n)   == [t |-> "num", n |-> n]
JBool(b)  == [t |-> "bool", b |-> b]
JMap(m)   == [t |-> "map", m |-> m]
JList(l)  == [t |-> "list", l |-> l]

\* A Go nil map / nil pointer / nil interface.
Nil       == [t |-> "nil"]

EmptyMap  == [k \in {} |-> JNull]

IsMap(v)  == v.t = "map"
IsStr(v)  == v.t = "str"
IsList(v) == v.t = "list"

Has(m, k) == k \in DOMAIN m

\* m[k] of a Go map[string]interface{}: the nil interface when k is absent.
Get(m, k) == IF Has(m, k) THEN m[k] ELSE Nil

\* m[k] = v on a Go map: a new function that agrees with m elsewhere.
Put(m, k, v) == [x \in (DOMAIN m) \cup {k} |-> IF x = k THEN v ELSE m[x]]

\* The merge loop keeping the entry already present.
MergeKeepingFirst(dst, src) ==
    [x \in (DOMAIN dst) \cup (DOMAIN src) |-> IF x \in DOMAIN dst THEN dst[x] ELSE src[x]]

\* for k, v := range src { dst[k] = v }
MergeInto(dst, src) ==
    [x \in (DOMAIN dst) \cup (DOMAIN src) |-> IF x \in DOMAIN src THEN src[x] ELSE dst[x]]

(***************************************************************************)
(* The template engine (text/template), an external collaborator.          *)
(* A template text lexes into literal text, field references {{.a}},       *)
(* chained references {{.a.b}} and, for unbalanced delimiters, a token     *)
(* the parser rejects.                                                     *)
(***************************************************************************)
Lit(s)    == [k |-> "lit", s |-> s]
Field(n)  == [k |-> "field", a |-> n]
Sub(a, b) == [k |-> "chain", a |-> a, b |-> b]
Unclosed  == [k |-> "unclosed"]

TextHello  == "Hello {{.Name}}!"
TextChain  == "{{.Name.Name}}"
TextProps  == "{{.properties}}"
TextBroken == "Hello {{.Name"

Texts == {TextHello, TextChain, TextProps, TextBroken}

Lex(text) ==
    CASE text = ""         -> << >>
      [] text = TextHello  -> <<Lit("Hello "), Field("Name"), Lit("!")>>
      [] text = TextChain  -> <<Sub("Name", "Name")>>
      [] text = TextProps  -> <<Field("properties")>>
      [] text = TextBroken -> <<Lit("Hello "), Unclosed>>

\* template.New(name).Parse(text)
Parse(text) ==
    LET toks == Lex(text) IN
    IF \E i \in 1..Len(toks) : toks[i].k = "unclosed"
    THEN [ok |-> FALSE, tmpl |-> <<>>]
    ELSE [ok |-> TRUE, tmpl |-> toks]

\* Go prints the keys of a map in sorted (byte) order.
KeyOrder == <<"Name", "name", "parameters", "properties", "result",
              "templateParameters", "value">>

RECURSIVE PrintValue(_)
RECURSIVE PrintEntries(_, _)

PrintEntries(m, i) ==
    IF i > Len(KeyOrder) THEN <<>>
    ELSE IF Has(m, KeyOrder[i])
         THEN <<KeyOrder[i] \o ":" \o PrintValue(m[KeyOrder[i]])>> \o PrintEntries(m, i + 1)
         ELSE PrintEntries(m, i + 1)

RECURSIVE JoinSpace(_)
JoinSpace(parts) ==
    IF parts = <<>> THEN ""
    ELSE IF Len(parts) = 1 THEN parts[1]
    ELSE parts[1] \o " " \o JoinSpace(Tail(parts))

\* fmt.Fprint of a value reached by a field reference.
PrintValue(v) ==
    CASE v.t = "str"  -> v.s
      [] v.t = "num"  -> ToString(v.n)
      [] v.t = "bool" -> IF v.b THEN "true" ELSE "false"
      [] v.t = "map"  -> "map[" \o JoinSpace(PrintEntries(v.m, 1)) \o "]"
      [] v.t = "null" -> "<no value>"
      [] v.t = "nil"  -> "<no value>"
      [] OTHER        -> "[...]"

\* A field of the data map; data is a map[string]interface{} that may be nil.
DataField(data, n) == IF IsMap(data) THEN Get(data.m, n) ELSE Nil

\* Evaluation of one token: [ok, out].
EvalToken(tok, data) ==
    CASE tok.k = "lit"   -> [ok |-> TRUE, out |-> tok.s]
      [] tok.k = "field" -> [ok |-> TRUE, out |-> PrintValue(DataField(data, tok.a))]
      [] tok.k = "chain" ->
            LET v == DataField(data, tok.a) IN
            IF IsMap(v)
            THEN [ok |-> TRUE, out |-> PrintValue(Get(v.m, tok.b))]
            ELSE [ok |-> FALSE, out |-> ""]

RECURSIVE ExecFrom(_, _, _, _)
ExecFrom(tmpl, data, i, acc) ==
    IF i > Len(tmpl) THEN [ok |-> TRUE, out |-> acc]
    ELSE LET r == EvalToken(tmpl[i], data) IN
         IF r.ok THEN ExecFrom(tmpl, data, i + 1, acc \o r.out)
         ELSE [ok |-> FALSE, out |-> acc]

\* tmpl.Execute(&output, data)
Execute(tmpl, data) == ExecFrom(tmpl, data, 1, "")

(***************************************************************************)
(* The file system seen by os.ReadFile.                                    *)
(***************************************************************************)
PathHello   == "/t/hello.tmpl"
PathMissing == "/t/none.tmpl"

Files == [p \in {PathHello} |-> TextHello]

ReadFile(path) ==
    IF path \in DOMAIN Files THEN [ok |-> TRUE, data |-> Files[path]]
    ELSE [ok |-> FALSE, data |-> ""]

(***************************************************************************)
(* Responses.  A message built by fmt.Sprintf is the list of its parts.    *)
(***************************************************************************)
EngineMsg == "<engine message>"

ErrorResponse(status, parts) == [status |-> status, error |-> parts, body |-> Nil]
OkResponse(body)             == [status |-> 200, error |-> <<>>, body |-> body]

\* What a handler run leaves behind.
Outcome(o, a, c, p, r) ==
    [ops |-> o, action |-> a, templateContent |-> c, parameters |-> p, resp |-> r]

(***************************************************************************)
(* c.Bind into TemplateRequest / RenderRequest: a field of the wrong JSON  *)
(* type is a bind error; null and absent leave the zero value.             *)
(***************************************************************************)
StringField(b, k) ==
    IF Has(b, k) /\ IsStr(b[k]) THEN b[k].s ELSE ""

MapField(b, k) ==
    IF Has(b, k) /\ IsMap(b[k]) THEN b[k] ELSE Nil

FieldIs(b, k, tag) == ~Has(b, k) \/ b[k].t \in {tag, "null"}

BindRequest(b) ==
    IF b.t = "map" /\ FieldIs(b.m, "template", "str")
                   /\ FieldIs(b.m, "templateId", "str")
                   /\ FieldIs(b.m, "parameters", "map")
    THEN [ok |-> TRUE,
          Template   |-> StringField(b.m, "template"),
          TemplateID |-> StringField(b.m, "templateId"),
          Parameters |-> MapField(b.m, "parameters")]
    ELSE [ok |-> FALSE, Template |-> "", TemplateID |-> "", Parameters |-> Nil]

(***************************************************************************)
(* handleRender, src/cmd/template.go:29-81                                 *)
(***************************************************************************)
RenderResponse(result) ==
    [Output |-> result, EncodingFormat |-> "text/plain", ContentSize |-> Len(result)]

ParseAndExecuteFlat(o, content, params) ==
    LET p == Parse(content) IN
    IF ~p.ok
    THEN Outcome(o \o <<"parse">>, Nil, content, params,
                 ErrorResponse(400, <<"failed to parse template: ", EngineMsg>>))
    ELSE LET e == Execute(p.tmpl, params) IN
         IF ~e.ok
         THEN Outcome(o \o <<"parse", "execute">>, Nil, content, params,
                      ErrorResponse(400, <<"failed to execute template: ", EngineMsg>>))
         ELSE Outcome(o \o <<"parse", "execute">>, Nil, content, params,
                      OkResponse(RenderResponse(e.out)))

\* handleRender without its final else branch.
handleRenderUnvalidated(b) ==
    LET r == BindRequest(b) IN
    IF ~r.ok
    THEN Outcome(<<"bind">>, Nil, "", Nil, ErrorResponse(400, <<"invalid request">>))
    ELSE IF r.Template = "" /\ r.TemplateID # ""
    THEN LET f == ReadFile(r.TemplateID) IN
         IF ~f.ok
         THEN Outcome(<<"bind", "read">>, Nil, "", Nil,
                      ErrorResponse(400, <<"failed to read template file: ", EngineMsg>>))
         ELSE ParseAndExecuteFlat(<<"bind", "read">>, f.data, r.Parameters)
    ELSE ParseAndExecuteFlat(<<"bind">>, r.Template, r.Parameters)

handleRender(b) ==
    LET r == BindRequest(b) IN
    IF ~r.ok
    THEN Outcome(<<"bind">>, Nil, "", Nil, ErrorResponse(400, <<"invalid request">>))
    ELSE IF r.Template # ""
    THEN ParseAndExecuteFlat(<<"bind">>, r.Template, r.Parameters)
    ELSE IF r.TemplateID # ""
    THEN LET f == ReadFile(r.TemplateID) IN
         IF ~f.ok
         THEN Outcome(<<"bind", "read">>, Nil, "", Nil,
                      ErrorResponse(400, <<"failed to read template file: ", EngineMsg>>))
         ELSE ParseAndExecuteFlat(<<"bind", "read">>, f.data, r.Parameters)
    ELSE Outcome(<<"bind">>, Nil, "", Nil,
                 ErrorResponse(400, <<"either template or templateId is required">>))

(***************************************************************************)
(* The JSON-LD envelope, src/cmd/template.go:119-139.                      *)
(* json.Unmarshal into SemanticTemplateAction / SemanticMediaObject: a     *)
(* typed field holding a value of another JSON type is an error;           *)
(* targetCollection is an interface{} and takes any value.                 *)
(***************************************************************************)
AnyField(b, k) ==
    IF Has(b, k) /\ b[k].t # "null" THEN b[k] ELSE Nil

MediaObjectFits(o) ==
    /\ FieldIs(o, "@type", "str")
    /\ FieldIs(o, "contentUrl", "str")
    /\ FieldIs(o, "text", "str")
    /\ FieldIs(o, "encodingFormat", "str")
    /\ FieldIs(o, "additionalType", "str")
    /\ FieldIs(o, "properties", "map")

SemanticMediaObject(o) ==
    [Type           |-> StringField(o, "@type"),
     ContentURL     |-> StringField(o, "contentUrl"),
     Text           |-> StringField(o, "text"),
     EncodingFormat |-> StringField(o, "encodingFormat"),
     AdditionalType |-> StringField(o, "additionalType"),
     Properties     |-> MapField(o, "properties")]

MediaObjectField(b, k) ==
    IF Has(b, k) /\ IsMap(b[k]) THEN SemanticMediaObject(b[k].m) ELSE Nil

ActionFits(b) ==
    /\ FieldIs(b, "@context", "str")
    /\ FieldIs(b, "@type", "str")
    /\ FieldIs(b, "identifier", "str")
    /\ FieldIs(b, "name", "str")
    /\ FieldIs(b, "object", "map")
    /\ FieldIs(b, "result", "map")
    /\ (Has(b, "object") /\ IsMap(b["object"]) => MediaObjectFits(b["object"].m))
    /\ (Has(b, "result") /\ IsMap(b["result"]) => MediaObjectFits(b["result"].m))

SemanticTemplateAction(b) ==
    [Context          |-> StringField(b, "@context"),
     Type             |-> StringField(b, "@type"),
     Identifier       |-> StringField(b, "identifier"),
     Name             |-> StringField(b, "name"),
     Object           |-> MediaObjectField(b, "object"),
     TargetCollection |-> AnyField(b, "targetCollection"),
     Result           |-> MediaObjectField(b, "result")]

(***************************************************************************)
(* Parameter resolution, src/cmd/template.go:196-233.                      *)
(* A Go map is a reference: `ref` names the structure of the parsed        *)
(* action that `parameters` aliases, so that a later write through         *)
(* parameters is a write to that structure.                                *)
(***************************************************************************)
\* The loop keeping the first value written for a name.
RECURSIVE FromPairsKeepingFirst(_, _)
FromPairsKeepingFirst(list, acc) ==
    IF list = <<>> THEN acc
    ELSE LET item == Head(list) IN
         IF /\ IsMap(item)
            /\ Has(item.m, "name") /\ IsStr(item.m["name"])
            /\ Has(item.m, "value")
            /\ ~Has(acc, item.m["name"].s)
         THEN FromPairsKeepingFirst(Tail(list), Put(acc, item.m["name"].s, item.m["value"]))
         ELSE FromPairsKeepingFirst(Tail(list), acc)

RECURSIVE FromPairs(_, _)
FromPairs(list, acc) ==
    IF list = <<>> THEN acc
    ELSE LET item == Head(list) IN
         IF /\ IsMap(item)
            /\ Has(item.m, "name") /\ IsStr(item.m["name"])
            /\ Has(item.m, "value")
         THEN FromPairs(Tail(list), Put(acc, item.m["name"].s, item.m["value"]))
         ELSE FromPairs(Tail(list), acc)

\* The list branch also skipping a pair whose value is null.
ResolveTargetCollectionSkippingNull(tc) ==
    CASE tc.t = "map" ->
            IF Has(tc.m, "properties") /\ IsMap(tc.m["properties"])
            THEN [params |-> tc.m["properties"], ref |-> "targetCollection.properties"]
            ELSE [params |-> tc, ref |-> "targetCollection"]
      [] tc.t = "list" ->
            [params |-> JMap(FromPairs(
                            SelectSeq(tc.l, LAMBDA x : ~(IsMap(x) /\ Has(x.m, "value")
                                                         /\ x.m["value"] = JNull)),
                            EmptyMap)),
             ref |-> "fresh"]
      [] OTHER ->
            [params |-> Nil, ref |-> "none"]

ResolveTargetCollection(tc) ==
    CASE tc.t = "map" ->
            IF Has(tc.m, "properties") /\ IsMap(tc.m["properties"])
            THEN [params |-> tc.m["properties"], ref |-> "targetCollection.properties"]
            ELSE [params |-> tc, ref |-> "targetCollection"]
      [] tc.t = "list" ->
            [params |-> JMap(FromPairs(tc.l, EmptyMap)), ref |-> "fresh"]
      [] OTHER ->
            [params |-> Nil, ref |-> "none"]

\* The action after `parameters[k] = v` for every entry of object.properties.
WriteThrough(a, ref, merged) ==
    CASE ref = "targetCollection" ->
            [a EXCEPT !.TargetCollection = JMap(merged)]
      [] ref = "targetCollection.properties" ->
            [a EXCEPT !.TargetCollection =
                        JMap(Put(a.TargetCollection.m, "properties", JMap(merged)))]
      [] OTHER -> a

MergeObjectProperties(a, first) ==
    IF a.Object # Nil /\ a.Object.Properties # Nil
    THEN IF first.params = Nil
         THEN [params |-> a.Object.Properties, action |-> a]
         ELSE LET merged == MergeInto(first.params.m, a.Object.Properties.m) IN
              [params |-> JMap(merged), action |-> WriteThrough(a, first.ref, merged)]
    ELSE [params |-> first.params, action |-> a]

\* The resolver reading object.properties only.
ResolveParametersObjectOnly(a) ==
    MergeObjectProperties(a, [params |-> Nil, ref |-> "none"])

ResolveParameters(a) ==
    MergeObjectProperties(a, ResolveTargetCollection(a.TargetCollection))

(***************************************************************************)
(* handleSemanticReplace, src/cmd/template.go:163-266                      *)
(***************************************************************************)
EncodingFormatOf(object) ==
    IF object # Nil /\ object.EncodingFormat # "" THEN object.EncodingFormat
    ELSE "text/plain"

ResultMediaObject(result, encodingFormat) ==
    [Type           |-> "MediaObject",
     ContentURL     |-> "",
     Text           |-> result,
     EncodingFormat |-> encodingFormat,
     AdditionalType |-> "",
     Properties     |-> Nil]

ParseAndExecuteAction(o, a, content, params) ==
    LET p == Parse(content) IN
    IF ~p.ok
    THEN Outcome(o \o <<"parse">>, a, content, params,
                 ErrorResponse(400, <<"failed to parse template: ", EngineMsg>>))
    ELSE LET e == Execute(p.tmpl, params) IN
         IF ~e.ok
         THEN Outcome(o \o <<"parse", "execute">>, a, content, params,
                      ErrorResponse(400, <<"failed to execute template: ", EngineMsg>>))
         ELSE LET done == [a EXCEPT !.Result =
                             ResultMediaObject(e.out, EncodingFormatOf(a.Object))] IN
              Outcome(o \o <<"parse", "execute">>, done, content, params,
                      OkResponse(done))

ResolveAndRender(o, a, content) ==
    LET r == ResolveParameters(a) IN
    ParseAndExecuteAction(o \o <<"resolve">>, r.action, content, r.params)

handleSemanticReplace(o, rawAction) ==
    IF ~ActionFits(rawAction)
    THEN Outcome(o \o <<"unmarshal">>, Nil, "", Nil,
                 ErrorResponse(400, <<"invalid action structure">>))
    ELSE LET a  == SemanticTemplateAction(rawAction)
             o2 == o \o <<"unmarshal">> IN
    IF a.Object = Nil
    THEN Outcome(o2, a, "", Nil, ErrorResponse(400, <<"object is required">>))
    ELSE IF a.Object.Text # ""
    THEN ResolveAndRender(o2, a, a.Object.Text)
    ELSE IF a.Object.ContentURL # ""
    THEN LET f == ReadFile(a.Object.ContentURL) IN
         IF ~f.ok
         THEN Outcome(o2 \o <<"read">>, a, "", Nil,
                      ErrorResponse(400, <<"failed to read template: ", EngineMsg>>))
         ELSE ResolveAndRender(o2 \o <<"read">>, a, f.data)
    ELSE Outcome(o2, a, "", Nil,
                 ErrorResponse(400, <<"object.text or object.contentUrl is required">>))

(***************************************************************************)
(* handleSemanticAction, src/cmd/template.go:141-161                       *)
(***************************************************************************)
\* The message without the value of @type.
UnsupportedMessageFixed(actionType) ==
    <<"unsupported action type: ", "unknown", " (expected ReplaceAction)">>

UnsupportedMessage(actionType) ==
    <<"unsupported action type: ", actionType, " (expected ReplaceAction)">>

handleSemanticAction(b) ==
    IF b.t # "map"
    THEN Outcome(<<"bind">>, Nil, "", Nil, ErrorResponse(400, <<"invalid JSON-LD">>))
    ELSE IF ~(Has(b.m, "@type") /\ IsStr(b.m["@type"]))
    THEN Outcome(<<"bind", "dispatch">>, Nil, "", Nil,
                 ErrorResponse(400, <<"@type is required">>))
    ELSE IF b.m["@type"].s = "ReplaceAction"
    THEN handleSemanticReplace(<<"bind", "dispatch", "replace">>, b.m)
    ELSE Outcome(<<"bind", "dispatch">>, Nil, "", Nil,
                 ErrorResponse(400, UnsupportedMessage(b.m["@type"].s)))

(***************************************************************************)
(* The semantic library (eve.evalgo.org/semantic) is an external package.  *)
(* Its code is not part of the repository, so what the handlers cannot     *)
(* determine is a choice made once per request and kept in `lib`:          *)
(*   lib.props      which part of the envelope ParseSemanticAction puts    *)
(*                  into action.Properties;                                *)
(*   lib.errStatus  the HTTP status ReturnActionError writes.              *)
(***************************************************************************)
PropsModes == {"additionalProperty", "extra", "dropped"}

ErrStatuses == {400, 500}

NoLib == [props |-> "dropped", errStatus |-> 400]

\* semantic.ReturnActionError(c, action, message, err)
ReturnActionError(l, parts) == ErrorResponse(l.errStatus, parts)

\* The fields of semantic.SemanticAction and its Object the handlers use.
SemanticObject(o) ==
    [Text           |-> StringField(o, "text"),
     ContentUrl     |-> StringField(o, "contentUrl"),
     EncodingFormat |-> StringField(o, "encodingFormat")]

DecodeProperties(b, mode) ==
    CASE mode = "additionalProperty" -> MapField(b, "additionalProperty")
      [] mode = "extra" ->
            IF Has(b, "additionalProperty")
            THEN JMap([k \in {"additionalProperty"} |-> b[k]])
            ELSE Nil
      [] OTHER -> Nil

\* semantic.ParseSemanticAction(bodyBytes), on the envelope the REST
\* adapter marshals.
ParseSemanticAction(b, l) ==
    [ok     |-> TRUE,
     action |-> [Type         |-> StringField(b, "@type"),
                 ActionStatus |-> "",
                 Object       |-> IF Has(b, "object") /\ IsMap(b["object"])
                                  THEN SemanticObject(b["object"].m) ELSE Nil,
                 Properties   |-> DecodeProperties(b, l.props)]]

\* semantic.SetSuccessOnAction(action)
SetSuccessOnAction(a) == [a EXCEPT !.ActionStatus = "CompletedActionStatus"]

(***************************************************************************)
(* handleSemanticReplace, src/cmd/templateservice/rest_handlers.go:119-186 *)
(***************************************************************************)
\* The fallback to all properties replaced by an empty parameter set.
PropertiesParametersStrict(a) ==
    IF a.Properties # Nil
    THEN IF Has(a.Properties.m, "templateParameters")
            /\ IsMap(a.Properties.m["templateParameters"])
         THEN a.Properties.m["templateParameters"]
         ELSE IF Has(a.Properties.m, "parameters")
                 /\ IsMap(a.Properties.m["parameters"])
         THEN a.Properties.m["parameters"]
         ELSE JMap(EmptyMap)
    ELSE JMap(EmptyMap)

PropertiesParameters(a) ==
    IF a.Properties # Nil
    THEN IF Has(a.Properties.m, "templateParameters")
            /\ IsMap(a.Properties.m["templateParameters"])
         THEN a.Properties.m["templateParameters"]
         ELSE IF Has(a.Properties.m, "parameters")
                 /\ IsMap(a.Properties.m["parameters"])
         THEN a.Properties.m["parameters"]
         ELSE a.Properties
    ELSE JMap(EmptyMap)

ResultProperty(result, encodingFormat) ==
    JMap([k \in {"@type", "text", "encodingFormat", "contentSize"} |->
            CASE k = "@type"          -> JStr("MediaObject")
              [] k = "text"           -> JStr(result)
              [] k = "encodingFormat" -> JStr(encodingFormat)
              [] k = "contentSize"    -> JNum(Len(result))])

\* action.Properties["result"] = ...; a write into a nil map panics.
StoreResult(o, a, content, params, result) ==
    IF a.Properties = Nil
    THEN Outcome(o \o <<"panic">>, a, content, params,
                 [status |-> 0, error |-> <<"panic: assignment to entry in nil map">>,
                  body |-> Nil])
    ELSE LET stored == [a EXCEPT !.Properties =
                          JMap(Put(a.Properties.m, "result",
                                   ResultProperty(result, EncodingFormatOf(a.Object))))]
             done   == SetSuccessOnAction(stored) IN
         Outcome(o, done, content, params, OkResponse(done))

RenderRegistry(o, a, l, content) ==
    LET params == PropertiesParameters(a)
        o2     == o \o <<"resolve">>
        p      == Parse(content) IN
    IF ~p.ok
    THEN Outcome(o2 \o <<"parse">>, a, content, params,
                 ReturnActionError(l, <<"Failed to parse template", EngineMsg>>))
    ELSE LET e == Execute(p.tmpl, params) IN
         IF ~e.ok
         THEN Outcome(o2 \o <<"parse", "execute">>, a, content, params,
                      ReturnActionError(l, <<"Failed to execute template", EngineMsg>>))
         ELSE StoreResult(o2 \o <<"parse", "execute">>, a, content, params, e.out)

\* handleSemanticReplace trying the reference before the inline text.
handleSemanticReplaceUrlFirst(o, a, l) ==
    IF a.Object = Nil
    THEN Outcome(o, a, "", Nil, ReturnActionError(l, <<"object is required">>))
    ELSE IF a.Object.ContentUrl # ""
    THEN LET f == ReadFile(a.Object.ContentUrl) IN
         IF ~f.ok
         THEN Outcome(o \o <<"read">>, a, "", Nil,
                      ReturnActionError(l, <<"Failed to read template file", EngineMsg>>))
         ELSE RenderRegistry(o \o <<"read">>, a, l, f.data)
    ELSE IF a.Object.Text # ""
    THEN RenderRegistry(o, a, l, a.Object.Text)
    ELSE Outcome(o, a, "", Nil,
                 ReturnActionError(l, <<"object.text or object.contentUrl is required">>))

handleSemanticReplaceRegistry(o, a, l) ==
    IF a.Object = Nil
    THEN Outcome(o, a, "", Nil, ReturnActionError(l, <<"object is required">>))
    ELSE IF a.Object.Text # ""
    THEN RenderRegistry(o, a, l, a.Object.Text)
    ELSE IF a.Object.ContentUrl # ""
    THEN LET f == ReadFile(a.Object.ContentUrl) IN
         IF ~f.ok
         THEN Outcome(o \o <<"read">>, a, "", Nil,
                      ReturnActionError(l, <<"Failed to read template file", EngineMsg>>))
         ELSE RenderRegistry(o \o <<"read">>, a, l, f.data)
    ELSE Outcome(o, a, "", Nil,
                 ReturnActionError(l, <<"object.text or object.contentUrl is required">>))

(***************************************************************************)
(* handleSemanticAction, src/cmd/templateservice/rest_handlers.go:101-117  *)
(* semantic.Handle looks the action type up in the ActionRegistry; the     *)
(* registration of handleSemanticReplace for ReplaceAction is at startup.  *)
(***************************************************************************)
Handle(o, a, l) ==
    IF a.Type = "ReplaceAction"
    THEN handleSemanticReplaceRegistry(o \o <<"dispatch", "replace">>, a, l)
    ELSE Outcome(o \o <<"dispatch">>, a, "", Nil,
                 ReturnActionError(l, <<"unsupported action type: ", a.Type>>))

handleSemanticActionRegistry(o, parsed, l) ==
    IF ~parsed.ok
    THEN Outcome(o \o <<"bind">>, Nil, "", Nil,
                 ReturnActionError(l, <<"Failed to parse semantic action", EngineMsg>>))
    ELSE Handle(o \o <<"bind">>, parsed.action, l)

(***************************************************************************)
(* renderTemplateREST and callSemanticHandler,                             *)
(* src/cmd/templateservice/rest_handlers.go:29-87                          *)
(***************************************************************************)
Entries(pairs) == [k \in {q[1] : q \in pairs} |-> (CHOOSE q \in pairs : q[1] = k)[2]]

BuildObject(r) ==
    Entries({<<"@type", JStr("MediaObject")>>}
            \cup (IF r.Template # "" THEN {<<"text", JStr(r.Template)>>} ELSE {})
            \cup (IF r.TemplateID # "" THEN {<<"contentUrl", JStr(r.TemplateID)>>} ELSE {}))

BuildAction(r) ==
    Entries({<<"@context", JStr("https://schema.org")>>,
             <<"@type", JStr("ReplaceAction")>>,
             <<"object", JMap(BuildObject(r))>>}
            \cup (IF r.Parameters # Nil
                  THEN {<<"additionalProperty", r.Parameters>>} ELSE {}))

callSemanticHandler(o, envelope, l) ==
    handleSemanticActionRegistry(o \o <<"marshal">>, ParseSemanticAction(envelope, l), l)

renderTemplateREST(b, l) ==
    LET r == BindRequest(b) IN
    IF ~r.ok
    THEN Outcome(<<"bind">>, Nil, "", Nil,
                 ErrorResponse(400, <<"Invalid request: ", EngineMsg>>))
    ELSE IF r.Template = "" /\ r.TemplateID = ""
    THEN Outcome(<<"bind">>, Nil, "", Nil,
                 ErrorResponse(400, <<"template or templateId is required">>))
    ELSE callSemanticHandler(<<"bind", "convert">>, BuildAction(r), l)

(***************************************************************************)
(* The requests the model sends.                                           *)
(***************************************************************************)
Keys == {"Name", "properties", "name", "value"}

Deep == JMap([Name |-> JStr("Deep")])

Vals == {JStr("World"), Deep, JNull}

MapsOver(keys, vals, n) ==
    UNION {[D -> vals] : D \in {S \in SUBSET keys : Cardinality(S) <= n}}

ParamMaps == MapsOver(Keys, Vals, MaxKeys)

Opt(k, vs) == {{}} \cup {{<<k, v>>} : v \in vs}

TextsJ == {JStr(x) : x \in Texts}
PathsJ == {JStr(PathHello), JStr(PathMissing)}

FlatBodies ==
    {JMap(Entries(t \cup i \cup p)) :
        t \in Opt("template", TextsJ),
        i \in Opt("templateId", PathsJ),
        p \in Opt("parameters", {JMap(m) : m \in ParamMaps} \cup {JStr("x")})}
    \cup {JStr("not an object")}

\* targetCollection as a list of PropertyValue items, well formed or not.
Pair(n, v) == JMap([name |-> JStr(n), value |-> v])

Items ==
    {Pair(n, v) : n \in {"Name", "properties"}, v \in Vals}
    \cup {Pair("name", JStr("World")), Pair("value", JStr("World"))}
    \cup {JStr("item"), JMap([name |-> JStr("Name")]), JMap([value |-> JStr("World")]),
          JMap([name |-> JNum(1), value |-> JStr("World")])}

RECURSIVE ListsUpTo(_)
ListsUpTo(n) ==
    IF n = 0 THEN {<<>>}
    ELSE LET shorter == ListsUpTo(n - 1) IN
         shorter \cup {Append(l, x) : l \in {s \in shorter : Len(s) = n - 1}, x \in Items}

TargetCollections ==
    {JMap(m) : m \in ParamMaps}
    \cup {JList(l) : l \in ListsUpTo(MaxPairs)}
    \cup {JStr("scalar"), JNum(7), JBool(TRUE), JNull}

ObjectProperties ==
    {JMap([Name |-> JStr("User")]),
     JMap([Name |-> JStr("User"), value |-> Deep]),
     JMap(EmptyMap)}

MediaObjects ==
    {JMap(Entries(t \cup u \cup e \cup p)) :
        t \in Opt("text", TextsJ),
        u \in Opt("contentUrl", PathsJ),
        e \in Opt("encodingFormat", {JStr("text/html")}),
        p \in Opt("properties", ObjectProperties)}

ReplaceEnvelopes ==
    {JMap(Entries({<<"@type", JStr("ReplaceAction")>>} \cup o \cup c)) :
        o \in Opt("object", MediaObjects),
        c \in Opt("targetCollection", TargetCollections)}

\* Envelopes of another kind, of no kind, or of the wrong structure.
OtherEnvelopes ==
    {JMap(Entries(t \cup o)) :
        t \in Opt("@type", {JStr("UpdateAction"), JStr(""), JStr("replaceaction"),
                            JNum(7), JNull}),
        o \in Opt("object", {JMap([text |-> JStr(TextHello)])})}
    \cup {JMap(Entries({<<"@type", JStr("ReplaceAction")>>, bad})) :
            bad \in {<<"object", JStr(TextHello)>>,
                     <<"object", JMap([text |-> JNum(7)])>>,
                     <<"object", JMap([text |-> JStr(TextHello),
                                       properties |-> JStr("x")])>>,
                     <<"name", JNum(7)>>}}
    \cup {JStr("not an object")}

Envelopes == ReplaceEnvelopes \cup OtherEnvelopes

\* Actions as semantic.ParseSemanticAction hands them to the registry.
PropertyVals == {JStr("World"), JMap([Name |-> JStr("User")]), JList(<<>>)}

PropertyMaps == MapsOver({"templateParameters", "parameters", "Name"}, PropertyVals, MaxKeys)

ParsedObjects ==
    {[Text |-> t, ContentUrl |-> u, EncodingFormat |-> e] :
        t \in Texts \cup {""}, u \in {"", PathHello, PathMissing}, e \in {"", "text/html"}}
    \cup {Nil}

ParsedActions ==
    {[ok |-> TRUE,
      action |-> [Type |-> ty, ActionStatus |-> "", Object |-> o, Properties |-> p]] :
        ty \in {"ReplaceAction", "UpdateAction"},
        o \in ParsedObjects,
        p \in {JMap(m) : m \in PropertyMaps} \cup {Nil}}
    \cup {[ok |-> FALSE, action |-> Nil]}

Libs == {[props |-> m, errStatus |-> s] : m \in PropsModes, s \in ErrStatuses}

(***************************************************************************)
(* The state machine: one request is received, then its handler runs.      *)
(***************************************************************************)
Received(e, r, l) ==
    /\ pc = "received"
    /\ entry = e
    /\ req = r
    /\ lib = l
    /\ action = Nil
    /\ templateContent = ""
    /\ parameters = Nil
    /\ ops = <<>>
    /\ resp = Nil
    /\ run = EmptyMap

Init ==
    \/ \E r \in FlatBodies : Received("render", r, NoLib)
    \/ \E r \in Envelopes : Received("semantic", r, NoLib)
    \/ \E r \in FlatBodies, l \in Libs : Received("rest", r, l)
    \/ \E r \in ParsedActions, s \in ErrStatuses :
          Received("registry", r, [props |-> "dropped", errStatus |-> s])

Respond(out) ==
    /\ pc' = "done"
    /\ action' = out.action
    /\ templateContent' = out.templateContent
    /\ parameters' = out.parameters
    /\ ops' = out.ops
    /\ resp' = out.resp
    /\ UNCHANGED <<entry, req, lib, run>>

HandleRender ==
    /\ pc = "received" /\ entry = "render"
    /\ Respond(handleRender(req))

HandleSemanticAction ==
    /\ pc = "received" /\ entry = "semantic"
    /\ Respond(handleSemanticAction(req))

RenderTemplateREST ==
    /\ pc = "received" /\ entry = "rest"
    /\ Respond(renderTemplateREST(req, lib))

HandleSemanticActionRegistry ==
    /\ pc = "received" /\ entry = "registry"
    /\ Respond(handleSemanticActionRegistry(<<>>, req, lib))

Next ==
    \/ HandleRender
    \/ HandleSemanticAction
    \/ RenderTemplateREST
    \/ HandleSemanticActionRegistry

Spec == Init /\ [][Next]_vars

(***************************************************************************)
(* Views of the current request used by the properties below.              *)
(***************************************************************************)
Done == pc = "done"

Did(stage) == \E i \in 1..Len(ops) : ops[i] = stage

Flat == entry \in {"render", "rest"}

\* The string a JSON object carries under k ("" when absent or no string).
RawString(v, k) == IF IsMap(v) THEN StringField(v.m, k) ELSE ""

RawObject == IF IsMap(req) /\ Has(req.m, "object") THEN req.m["object"] ELSE Nil

\* The inline text and the reference of the request, as sent.
ReqText ==
    CASE Flat               -> RawString(req, "template")
      [] entry = "semantic" -> RawString(RawObject, "text")
      [] OTHER -> IF req.ok /\ req.action.Object # Nil THEN req.action.Object.Text ELSE ""

ReqRef ==
    CASE Flat               -> RawString(req, "templateId")
      [] entry = "semantic" -> RawString(RawObject, "contentUrl")
      [] OTHER -> IF req.ok /\ req.action.Object # Nil THEN req.action.Object.ContentUrl ELSE ""

\* The request is a JSON object that reached the code resolving the
\* template source (for an envelope: it was dispatched as a ReplaceAction).
Addressed ==
    CASE Flat               -> IsMap(req)
      [] entry = "semantic" -> Did("replace")
      [] OTHER              -> Did("replace")

\* The body decoded into the handler's request structure.
Decoded ==
    CASE Flat               -> BindRequest(req).ok
      [] entry = "semantic" -> Did("replace") /\ ActionFits(req.m)
      [] OTHER              -> Did("replace")

MissingFieldMessages ==
    {<<"either template or templateId is required">>,
     <<"template or templateId is required">>,
     <<"object is required">>,
     <<"object.text or object.contentUrl is required">>}

UndecodableMessages ==
    {<<"invalid request">>, <<"Invalid request: ", EngineMsg>>,
     <<"invalid action structure">>}

ReadFailureMessages ==
    {<<"failed to read template file: ", EngineMsg>>,
     <<"failed to read template: ", EngineMsg>>,
     <<"Failed to read template file", EngineMsg>>}

NoEngineCall == ~Did("read") /\ ~Did("parse") /\ ~Did("execute")

(***************************************************************************)
(* C1 (as claimed): on every entry point, a request with neither template  *)
(* text nor reference is answered with a missing-required-field error and  *)
(* no file read, parse or execute is performed.                            *)
(***************************************************************************)
C1_AsClaimed ==
    Done /\ Addressed /\ ReqText = "" /\ ReqRef = ""
        => resp.error \in MissingFieldMessages /\ NoEngineCall

(***************************************************************************)
(* C1 (amended): a request with neither template text nor reference whose  *)
(* body decodes into the handler's request structure is answered with a    *)
(* missing-required-field error; one whose body does not decode is         *)
(* answered with an invalid-request error; in both cases no file read,     *)
(* parse or execute is performed.                                          *)
(***************************************************************************)
C1_MissingSource ==
    Done /\ Addressed /\ ReqText = "" /\ ReqRef = ""
        => /\ NoEngineCall
           /\ resp.status # 200
           /\ Decoded => resp.error \in MissingFieldMessages
           /\ ~Decoded => resp.error \in UndecodableMessages

C1_Witness ==
    /\ Done /\ entry = "render" /\ Decoded
    /\ ReqText = "" /\ ReqRef = ""
    /\ Has(req.m, "parameters")
    /\ resp.error = <<"either template or templateId is required">>

(***************************************************************************)
(* C2 (as claimed): in the switch dispatcher, every envelope whose @type   *)
(* is not "ReplaceAction", is absent or is not a string fails with an      *)
(* "unsupported action type" error carrying the offending value, and       *)
(* handleSemanticReplace is not invoked.                                   *)
(***************************************************************************)
TypeGiven == Has(req.m, "@type") /\ IsStr(req.m["@type"])

OtherKind == ~TypeGiven \/ req.m["@type"].s # "ReplaceAction"

C2_AsClaimed ==
    Done /\ entry = "semantic" /\ IsMap(req) /\ OtherKind
        => /\ Len(resp.error) = 3
           /\ resp.error[1] = "unsupported action type: "
           /\ TypeGiven => resp.error[2] = req.m["@type"].s
           /\ ~Did("replace")

(***************************************************************************)
(* C2 (amended): in the switch dispatcher, an envelope whose @type is a    *)
(* string other than "ReplaceAction" fails with an "unsupported action     *)
(* type" error whose message carries that string exactly; an envelope      *)
(* whose @type is absent or not a string fails with "@type is required";   *)
(* in neither case is handleSemanticReplace invoked.                       *)
(***************************************************************************)
C2_Dispatch ==
    Done /\ entry = "semantic" /\ IsMap(req) /\ OtherKind
        => /\ resp.status = 400
           /\ ~Did("replace") /\ NoEngineCall
           /\ TypeGiven =>
                resp.error = <<"unsupported action type: ", req.m["@type"].s,
                               " (expected ReplaceAction)">>
           /\ ~TypeGiven => resp.error = <<"@type is required">>

C2_Witness ==
    /\ Done /\ entry = "semantic" /\ IsMap(req) /\ TypeGiven
    /\ req.m["@type"].s = "UpdateAction"
    /\ resp.error[2] = "UpdateAction"

(***************************************************************************)
(* C3: when both the inline text and the reference are non-empty, the      *)
(* template parsed is the inline text, the referenced file is not read     *)
(* and no file-read failure is reported, on the flat request and on the    *)
(* envelope built by renderTemplateREST alike.                             *)
(***************************************************************************)
C3_TextPreferred ==
    Done /\ ReqText # "" /\ ReqRef # ""
        => /\ ~Did("read")
           /\ resp.error \notin ReadFailureMessages
           /\ Did("parse") => templateContent = ReqText
           /\ Decoded => Did("parse")

C3_Witness ==
    /\ Done /\ entry = "rest"
    /\ ReqText = TextHello /\ ReqRef = PathMissing
    /\ Did("parse") /\ templateContent = TextHello

(***************************************************************************)
(* Views of the envelope as sent to the switch dispatcher.                 *)
(***************************************************************************)
\* The envelope decoded, before the handler touches it.
SentAction == SemanticTemplateAction(req.m)

SentCollection == SentAction.TargetCollection

SentProperties ==
    IF SentAction.Object # Nil THEN SentAction.Object.Properties ELSE Nil

Resolved == entry = "semantic" /\ Done /\ Did("resolve")

WellFormedPair(x) ==
    IsMap(x) /\ DOMAIN x.m = {"name", "value"} /\ IsStr(x.m["name"])

\* l lists the {name, value} pairs of a mapping: one pair per name.
IsPairListOfMapping(l) ==
    /\ \A i \in 1..Len(l) : WellFormedPair(l[i])
    /\ \A i, j \in 1..Len(l) : l[i].m["name"] = l[j].m["name"] => i = j

\* The mapping whose pairs l lists.
MappingOf(l) ==
    [n \in {l[i].m["name"].s : i \in 1..Len(l)} |->
        (CHOOSE x \in {l[i] : i \in 1..Len(l)} : x.m["name"].s = n).m["value"]]

\* What the resolver yields for the sent envelope with its targetCollection
\* replaced by tc.
ResolvedWith(tc) ==
    ResolveParameters([SentAction EXCEPT !.TargetCollection = tc]).params

WrapsProperties(m) == Has(m, "properties") /\ IsMap(m["properties"])

(***************************************************************************)
(* C4 (as claimed): resolving targetCollection given as the list of        *)
(* {name, value} pairs of a mapping M yields the same flat mapping as      *)
(* resolving targetCollection given directly as M, for every M.            *)
(***************************************************************************)
C4_AsClaimed ==
    Resolved /\ IsList(SentCollection) /\ IsPairListOfMapping(SentCollection.l)
        => parameters = ResolvedWith(JMap(MappingOf(SentCollection.l)))

(***************************************************************************)
(* C4 (amended): resolving targetCollection given as the list of           *)
(* {name, value} pairs of a mapping M yields the same flat mapping as      *)
(* resolving targetCollection given directly as M, for every M that does   *)
(* not hold a mapping under the key "properties"; for an M that does, the  *)
(* list yields M itself and the mapping form yields M["properties"].       *)
(***************************************************************************)
C4_ShapeEquivalence ==
    Resolved /\ IsList(SentCollection) /\ IsPairListOfMapping(SentCollection.l)
        => LET M == MappingOf(SentCollection.l) IN
           /\ ~WrapsProperties(M) => parameters = ResolvedWith(JMap(M))
           /\ WrapsProperties(M) /\ SentProperties = Nil =>
                /\ parameters = JMap(M)
                /\ ResolvedWith(JMap(M)) = M["properties"]

C4_Witness ==
    /\ Resolved /\ IsList(SentCollection)
    /\ SentCollection.l = <<Pair("Name", JNull), Pair("value", JStr("World"))>>
    /\ SentProperties = Nil
    /\ parameters = JMap([Name |-> JNull, value |-> JStr("World")])

(***************************************************************************)
(* C5: when targetCollection (as a mapping or as a list of pairs) and      *)
(* object.properties are both present, the parameter set passed to         *)
(* template execution is their union, and a key both define carries the    *)
(* value of object.properties.                                             *)
(***************************************************************************)
\* The last pair of l that writes the name n.
LastWriter(l, n) ==
    CHOOSE i \in 1..Len(l) :
        /\ IsMap(l[i]) /\ Has(l[i].m, "name") /\ Has(l[i].m, "value")
        /\ l[i].m["name"] = JStr(n)
        /\ \A j \in (i + 1)..Len(l) :
              ~(IsMap(l[j]) /\ Has(l[j].m, "name") /\ Has(l[j].m, "value")
                /\ l[j].m["name"] = JStr(n))

WrittenNames(l) ==
    {l[i].m["name"].s : i \in {j \in 1..Len(l) :
        IsMap(l[j]) /\ Has(l[j].m, "name") /\ Has(l[j].m, "value") /\ IsStr(l[j].m["name"])}}

\* The entries the primary source defines.
Primary(tc) ==
    IF IsList(tc)
    THEN [n \in WrittenNames(tc.l) |-> tc.l[LastWriter(tc.l, n)].m["value"]]
    ELSE IF WrapsProperties(tc.m) THEN tc.m["properties"].m ELSE tc.m

BothSources ==
    /\ Resolved /\ Did("execute")
    /\ SentCollection.t \in {"map", "list"}
    /\ SentProperties # Nil

C5_SecondaryWins ==
    BothSources
        => LET first  == Primary(SentCollection)
               second == SentProperties.m IN
           /\ IsMap(parameters)
           /\ DOMAIN parameters.m = (DOMAIN first) \cup (DOMAIN second)
           /\ \A k \in DOMAIN second : parameters.m[k] = second[k]
           /\ \A k \in (DOMAIN first) \ (DOMAIN second) : parameters.m[k] = first[k]

C5_Witness ==
    /\ BothSources
    /\ SentCollection = JMap([Name |-> JStr("World"), name |-> JStr("World")])
    /\ SentProperties = JMap([Name |-> JStr("User"), value |-> Deep])
    /\ parameters = JMap([Name |-> JStr("User"), name |-> JStr("World"), value |-> Deep])

(***************************************************************************)
(* C6: after handleSemanticReplace has resolved the parameters and         *)
(* rendered, the targetCollection, the object.properties and the action's  *)
(* properties of the parsed envelope hold exactly the entries they held    *)
(* on arrival.                                                             *)
(***************************************************************************)
C6_NoMutation ==
    /\ (Resolved /\ resp.status = 200
          => /\ action.TargetCollection = SentCollection
             /\ action.Object.Properties = SentProperties)
    /\ (Done /\ entry \in {"rest", "registry"} /\ Did("execute") /\ resp.status = 200
          => action.Properties = (IF entry = "registry" THEN req.action.Properties
                                  ELSE ParseSemanticAction(BuildAction(BindRequest(req)), lib)
                                          .action.Properties))

(***************************************************************************)
(* The parts of a Render Result a response carries.                        *)
(***************************************************************************)
ParseFailureMessages ==
    {<<"failed to parse template: ", EngineMsg>>, <<"Failed to parse template", EngineMsg>>}

ExecuteFailureMessages ==
    {<<"failed to execute template: ", EngineMsg>>,
     <<"Failed to execute template", EngineMsg>>}

\* Parse and execute both ran and neither failed.
Rendered ==
    /\ Done /\ Did("parse") /\ Did("execute")
    /\ resp.error \notin ExecuteFailureMessages

StoredResult ==
    IF IsMap(resp.body.Properties) /\ Has(resp.body.Properties.m, "result")
    THEN resp.body.Properties.m["result"].m ELSE EmptyMap

HasOutputText ==
    CASE resp.status # 200   -> FALSE
      [] entry = "render"    -> "Output" \in DOMAIN resp.body
      [] entry = "semantic"  -> resp.body.Result # Nil /\ "Text" \in DOMAIN resp.body.Result
      [] OTHER               -> Has(StoredResult, "text")

OutputText ==
    CASE entry = "render"    -> resp.body.Output
      [] entry = "semantic"  -> resp.body.Result.Text
      [] OTHER               -> StoredResult["text"].s

HasContentType ==
    CASE resp.status # 200   -> FALSE
      [] entry = "render"    -> "EncodingFormat" \in DOMAIN resp.body
      [] entry = "semantic"  -> resp.body.Result # Nil
                                /\ "EncodingFormat" \in DOMAIN resp.body.Result
      [] OTHER               -> Has(StoredResult, "encodingFormat")

ContentType ==
    CASE entry = "render"    -> resp.body.EncodingFormat
      [] entry = "semantic"  -> resp.body.Result.EncodingFormat
      [] OTHER               -> StoredResult["encodingFormat"].s

HasContentSize ==
    CASE resp.status # 200   -> FALSE
      [] entry = "render"    -> "ContentSize" \in DOMAIN resp.body
      [] entry = "semantic"  -> resp.body.Result # Nil
                                /\ "ContentSize" \in DOMAIN resp.body.Result
      [] OTHER               -> Has(StoredResult, "contentSize")

ContentSize ==
    CASE entry = "render"    -> resp.body.ContentSize
      [] entry = "semantic"  -> resp.body.Result.ContentSize
      [] OTHER               -> StoredResult["contentSize"].n

\* The encodingFormat the template source declares ("" when none).
DeclaredFormat ==
    CASE Flat                -> ""
      [] entry = "semantic"  -> RawString(RawObject, "encodingFormat")
      [] OTHER               -> req.action.Object.EncodingFormat

(***************************************************************************)
(* C7: on every entry point, a request whose parse and execute succeed is  *)
(* answered with the output text, a content type equal to the declared     *)
(* encodingFormat (text/plain when none is declared) and a content size    *)
(* equal to the byte length of the output text.                            *)
(***************************************************************************)
C7_RenderResult ==
    Rendered
        => /\ HasOutputText
           /\ HasContentType
           /\ ContentType = (IF DeclaredFormat # "" THEN DeclaredFormat ELSE "text/plain")
           /\ HasContentSize
           /\ ContentSize = Len(OutputText)

(***************************************************************************)
(* The stage at which a request ended.                                     *)
(***************************************************************************)
StageOf(r) ==
    CASE r.status = 200                      -> "rendered"
      [] r.error \in MissingFieldMessages    -> "missing field"
      [] r.error \in ReadFailureMessages     -> "file read"
      [] r.error \in ParseFailureMessages    -> "parse"
      [] r.error \in ExecuteFailureMessages  -> "execute"
      [] OTHER                               -> "other"

\* The envelope carries exactly one parameter source, or none.
OneSource ==
    \/ SentCollection = Nil
    \/ /\ SentProperties = Nil
       /\ \/ IsMap(SentCollection)
          \/ IsList(SentCollection) /\ IsPairListOfMapping(SentCollection.l)

\* The mapping P that source denotes (Nil when the envelope has none).
SentParameters ==
    CASE SentCollection = Nil     -> SentProperties
      [] IsMap(SentCollection)    -> SentCollection
      [] OTHER                    -> JMap(MappingOf(SentCollection.l))

\* The flat request with the template source of the envelope and
\* parameters p.
FlatRequest(p) ==
    JMap(Entries((IF ReqText # "" THEN {<<"template", JStr(ReqText)>>} ELSE {})
                 \cup (IF ReqRef # "" THEN {<<"templateId", JStr(ReqRef)>>} ELSE {})
                 \cup (IF p # Nil THEN {<<"parameters", p>>} ELSE {})))

SameOutcome(flat) ==
    /\ StageOf(resp) = StageOf(flat.resp)
    /\ resp.status = 200 => resp.body.Result.Text = flat.resp.body.Output

Enveloped == entry = "semantic" /\ Done /\ Did("replace") /\ ActionFits(req.m)

(***************************************************************************)
(* C8 (as claimed): the flat request {template, templateId, parameters: P} *)
(* and the ReplaceAction envelope with the same template source and P as   *)
(* its parameter source end in the same outcome, for every P.              *)
(***************************************************************************)
C8_AsClaimed ==
    Enveloped /\ OneSource => SameOutcome(handleRender(FlatRequest(SentParameters)))

(***************************************************************************)
(* C8 (amended): the flat request {template, templateId, parameters: P}    *)
(* and the ReplaceAction envelope with the same template source and P as   *)
(* its parameter source end in the same outcome (the same output text, or  *)
(* a failure at the same stage), except when P is given as a               *)
(* targetCollection mapping that holds a mapping under "properties": the   *)
(* envelope then ends as the flat request with parameters P["properties"]. *)
(***************************************************************************)
Unwrapped(p) ==
    IF p # Nil /\ IsMap(SentCollection) /\ WrapsProperties(p.m)
    THEN p.m["properties"] ELSE p

C8_ShapesAgree ==
    Enveloped /\ OneSource
        => SameOutcome(handleRender(FlatRequest(Unwrapped(SentParameters))))

C8_Witness ==
    /\ Enveloped /\ OneSource
    /\ ReqText = TextChain
    /\ SentCollection = JMap([Name |-> Deep])
    /\ resp.status = 200
    /\ resp.body.Result.Text = "Deep"

(***************************************************************************)
(* C9: for a REST render request with a non-nil parameters mapping P, the  *)
(* action built by renderTemplateREST carries P under templateParameters   *)
(* (or its alias parameters), and the mapping handed to template           *)
(* execution is exactly P.                                                 *)
(***************************************************************************)
C9_ParametersMapped ==
    Done /\ entry = "rest" /\ Did("convert") /\ BindRequest(req).Parameters # Nil
        => LET P     == BindRequest(req).Parameters
               built == BuildAction(BindRequest(req))
               props == IF Has(built, "properties") /\ IsMap(built["properties"])
                        THEN built["properties"].m ELSE EmptyMap IN
           /\ \E k \in {"templateParameters", "parameters"} :
                 Get(built, k) = P \/ Get(props, k) = P
           /\ Did("execute") => parameters = P

(***************************************************************************)
(* C10 (as claimed): a parameter source that is neither a mapping nor a    *)
(* list of pairs is treated as an empty parameter set and never as an      *)
(* error: the template is parsed and executed against the parameter set    *)
(* the request has without that source.                                    *)
(***************************************************************************)
ScalarCollection ==
    Resolved /\ SentCollection # Nil /\ SentCollection.t \notin {"map", "list"}

\* The templateParameters / parameters entries that are no mapping.
Unrecognized(props) ==
    {k \in {"templateParameters", "parameters"} : Has(props, k) /\ ~IsMap(props[k])}

ParsedProperties == req.action.Properties

UnrecognizedEntry ==
    /\ entry = "registry" /\ Done /\ Did("resolve")
    /\ ParsedProperties # Nil
    /\ Unrecognized(ParsedProperties.m) # {}

Without(m, ks) == [k \in (DOMAIN m) \ ks |-> m[k]]

C10_AsClaimed ==
    /\ ScalarCollection
         => /\ Did("parse")
            /\ parameters = ResolvedWith(Nil)
    /\ UnrecognizedEntry
         => /\ Did("parse")
            /\ parameters = PropertiesParameters(
                              [req.action EXCEPT !.Properties =
                                 JMap(Without(ParsedProperties.m,
                                              Unrecognized(ParsedProperties.m)))])

(***************************************************************************)
(* C10 (amended): a parameter source that is neither a mapping nor a list  *)
(* of pairs is never an error and the template is still parsed.  An        *)
(* unrecognized targetCollection contributes no entry.  An unrecognized    *)
(* templateParameters or parameters entry of the action properties is not  *)
(* unpacked, but unless the other of the two keys holds a mapping the      *)
(* parameter set is the whole properties mapping, which still holds the    *)
(* unrecognized entry under its own key.                                   *)
(***************************************************************************)
C10_UnrecognizedShape ==
    /\ ScalarCollection
         => /\ Did("parse")
            /\ StageOf(resp) \in {"rendered", "parse", "execute"}
            /\ parameters = SentProperties
    /\ UnrecognizedEntry
         => LET props == ParsedProperties.m
                good  == {k \in {"templateParameters", "parameters"} :
                             Has(props, k) /\ IsMap(props[k])} IN
            /\ Did("parse")
            /\ StageOf(resp) \in {"rendered", "parse", "execute"}
            /\ good = {} => parameters = ParsedProperties
            /\ good # {} => \E k \in good : parameters = props[k]

C10_Witness ==
    /\ UnrecognizedEntry
    /\ ParsedProperties = JMap([templateParameters |-> JStr("World")])
    /\ parameters = JMap([templateParameters |-> JStr("World")])
    /\ resp.status = 200

(***************************************************************************)
(* C11: a parameter source given as a list of pairs resolves, from an      *)
(* empty mapping, to the mapping that gives each name the value of the     *)
(* last pair carrying it; an element that is no mapping, whose name is     *)
(* absent or no string, or whose value is absent contributes no key and    *)
(* no error, and a pair whose value is an explicit null is written.        *)
(***************************************************************************)
\* The element writes a key: a mapping with a string name and a value.
Writes(x) ==
    IsMap(x) /\ Has(x.m, "name") /\ IsStr(x.m["name"]) /\ Has(x.m, "value")

ListResolved == Resolved /\ IsList(SentCollection) /\ SentProperties = Nil

C11_PairList ==
    ListResolved
        => LET l == SentCollection.l IN
           /\ IsMap(parameters)
           /\ StageOf(resp) \in {"rendered", "parse", "execute"}
           /\ \A n \in DOMAIN parameters.m :
                 \E i \in 1..Len(l) : Writes(l[i]) /\ l[i].m["name"].s = n
           /\ \A i \in 1..Len(l) :
                 Writes(l[i]) =>
                    /\ Has(parameters.m, l[i].m["name"].s)
                    /\ (\A j \in (i + 1)..Len(l) :
                           ~(Writes(l[j]) /\ l[j].m["name"] = l[i].m["name"]))
                         => parameters.m[l[i].m["name"].s] = l[i].m["value"]

C11_Witness ==
    /\ ListResolved
    /\ SentCollection.l = <<Pair("Name", JStr("World")), Pair("Name", JNull)>>
    /\ parameters = JMap([Name |-> JNull])
    /\ resp.status = 200

\* An element that is skipped leaves the mapping as the other pairs made it.
C11_SkipWitness ==
    /\ ListResolved
    /\ SentCollection.l = <<Pair("Name", JStr("World")), JMap([name |-> JStr("Name")])>>
    /\ parameters = JMap([Name |-> JStr("World")])

(***************************************************************************)
(* The handlers step by step, for requests served concurrently.            *)
(*                                                                         *)
(* net/http serves every request on a goroutine of its own; run[i] holds   *)
(* the locals of the handler serving request i and its position:           *)
(*   received -> convert -> dispatch -> unmarshal -> source -> params      *)
(*            -> parse -> execute -> respond -> done                       *)
(* A return statement of the handler is the move to "done".                *)
(***************************************************************************)
Reqs == {"r1", "r2"}

Frame(e, r, l) ==
    [pc |-> "received", entry |-> e, req |-> r, lib |-> l,
     bound |-> Nil, action |-> Nil, templateContent |-> "", parameters |-> Nil,
     tmpl |-> <<>>, output |-> "", ops |-> <<>>, resp |-> Nil]

\* return c.JSON(...) at `stage`.
Return(r, stage, response) ==
    [r EXCEPT !.pc = "done", !.ops = @ \o stage, !.resp = response]

Goto(r, stage, next) == [r EXCEPT !.pc = next, !.ops = @ \o stage]

\* The error response of the handler serving r.
Fail(r, parts) ==
    IF r.entry = "rest" THEN ReturnActionError(r.lib, parts) ELSE ErrorResponse(400, parts)

\* c.Bind: template.go:30-33, template.go:143-146, rest_handlers.go:30-33
BindStep(r) ==
    CASE r.entry = "semantic" ->
            IF r.req.t # "map"
            THEN Return(r, <<"bind">>, ErrorResponse(400, <<"invalid JSON-LD">>))
            ELSE [Goto(r, <<"bind">>, "dispatch") EXCEPT !.bound = r.req.m]
      [] r.entry = "render" ->
            LET b == BindRequest(r.req) IN
            IF ~b.ok
            THEN Return(r, <<"bind">>, ErrorResponse(400, <<"invalid request">>))
            ELSE [Goto(r, <<"bind">>, "source") EXCEPT !.bound = b]
      [] OTHER ->
            LET b == BindRequest(r.req) IN
            IF ~b.ok
            THEN Return(r, <<"bind">>,
                        ErrorResponse(400, <<"Invalid request: ", EngineMsg>>))
            ELSE [Goto(r, <<"bind">>, "convert") EXCEPT !.bound = b]

\* renderTemplateREST after the bind and callSemanticHandler up to the call
\* of handleSemanticAction: rest_handlers.go:35-86
ConvertStep(r) ==
    IF r.bound.Template = "" /\ r.bound.TemplateID = ""
    THEN Return(r, <<>>, ErrorResponse(400, <<"template or templateId is required">>))
    ELSE [Goto(r, <<"convert", "marshal">>, "dispatch") EXCEPT !.bound = BuildAction(r.bound)]

\* handleSemanticAction: template.go:148-160, rest_handlers.go:101-117
DispatchStep(r) ==
    IF r.entry = "semantic"
    THEN IF ~(Has(r.bound, "@type") /\ IsStr(r.bound["@type"]))
         THEN Return(r, <<"dispatch">>, ErrorResponse(400, <<"@type is required">>))
         ELSE IF r.bound["@type"].s = "ReplaceAction"
         THEN Goto(r, <<"dispatch", "replace">>, "unmarshal")
         ELSE Return(r, <<"dispatch">>,
                     ErrorResponse(400, UnsupportedMessage(r.bound["@type"].s)))
    ELSE LET parsed == ParseSemanticAction(r.bound, r.lib) IN
         IF ~parsed.ok
         THEN Return(r, <<"bind">>,
                     Fail(r, <<"Failed to parse semantic action", EngineMsg>>))
         ELSE IF parsed.action.Type = "ReplaceAction"
         THEN [Goto(r, <<"bind", "dispatch", "replace">>, "source")
                 EXCEPT !.action = parsed.action]
         ELSE [Return(r, <<"bind", "dispatch">>,
                      Fail(r, <<"unsupported action type: ", parsed.action.Type>>))
                 EXCEPT !.action = parsed.action]

\* handleSemanticReplace: template.go:164-168
UnmarshalStep(r) ==
    IF ~ActionFits(r.bound)
    THEN Return(r, <<"unmarshal">>, ErrorResponse(400, <<"invalid action structure">>))
    ELSE [Goto(r, <<"unmarshal">>, "source") EXCEPT !.action = SemanticTemplateAction(r.bound)]

\* The inline text and the reference the handler serving r looks at.
SourceText(r) ==
    CASE r.entry = "render"   -> r.bound.Template
      [] r.action.Object = Nil -> ""
      [] OTHER                -> r.action.Object.Text

SourceRef(r) ==
    CASE r.entry = "render"    -> r.bound.TemplateID
      [] r.action.Object = Nil  -> ""
      [] r.entry = "semantic"  -> r.action.Object.ContentURL
      [] OTHER                 -> r.action.Object.ContentUrl

MissingSource(r) ==
    CASE r.entry = "render"    -> <<"either template or templateId is required">>
      [] r.action.Object = Nil  -> <<"object is required">>
      [] OTHER                 -> <<"object.text or object.contentUrl is required">>

ReadFailure(r) ==
    CASE r.entry = "render"    -> <<"failed to read template file: ", EngineMsg>>
      [] r.entry = "semantic"  -> <<"failed to read template: ", EngineMsg>>
      [] OTHER                 -> <<"Failed to read template file", EngineMsg>>

AfterSource(r) == IF r.entry = "render" THEN "parse" ELSE "params"

\* Template source: template.go:35-53, 170-194, rest_handlers.go:120-139
SourceStep(r) ==
    IF SourceText(r) # ""
    THEN [Goto(r, <<>>, AfterSource(r)) EXCEPT !.templateContent = SourceText(r)]
    ELSE IF SourceRef(r) # ""
    THEN LET f == ReadFile(SourceRef(r)) IN
         IF ~f.ok
         THEN Return(r, <<"read">>, Fail(r, ReadFailure(r)))
         ELSE [Goto(r, <<"read">>, AfterSource(r)) EXCEPT !.templateContent = f.data]
    ELSE Return(r, <<>>, Fail(r, MissingSource(r)))

\* `parameters` as one package-level variable, the same for every handler.
ParametersOfShared(i) == CHOOSE j \in Reqs : TRUE

\* The frame holding the `parameters` local of the handler serving i
\* (template.go:197, rest_handlers.go:142): the handler's own.
ParametersOf(i) == i

\* Parameters: template.go:196-233, rest_handlers.go:141-155
ParamsResult(r) ==
    IF r.entry = "semantic"
    THEN ResolveParameters(r.action)
    ELSE [params |-> PropertiesParameters(r.action), action |-> r.action]

ParseFailure(r) ==
    IF r.entry = "rest" THEN <<"Failed to parse template", EngineMsg>>
    ELSE <<"failed to parse template: ", EngineMsg>>

\* A failed parse going on to execute the empty template.
AfterParseLenient(r, p) ==
    [Goto(r, <<"parse">>, "execute") EXCEPT !.tmpl = p.tmpl]

AfterParse(r, p) ==
    IF ~p.ok
    THEN Return(r, <<"parse">>, Fail(r, ParseFailure(r)))
    ELSE [Goto(r, <<"parse">>, "execute") EXCEPT !.tmpl = p.tmpl]

\* template.New(...).Parse: template.go:55-61, 235-241, rest_handlers.go:157-161
ParseStep(r) == AfterParse(r, Parse(r.templateContent))

ExecuteFailure(r) ==
    IF r.entry = "rest" THEN <<"Failed to execute template", EngineMsg>>
    ELSE <<"failed to execute template: ", EngineMsg>>

\* tmpl.Execute: template.go:63-68, 243-248, rest_handlers.go:163-166
ExecuteStep(r, data) ==
    LET e == Execute(r.tmpl, data) IN
    IF ~e.ok
    THEN Return(r, <<"execute">>, Fail(r, ExecuteFailure(r)))
    ELSE [Goto(r, <<"execute">>, "respond") EXCEPT !.output = e.out]

\* The success path: template.go:70-80, 250-265, rest_handlers.go:168-185
RespondStep(r) ==
    CASE r.entry = "render" ->
            Return(r, <<>>, OkResponse(RenderResponse(r.output)))
      [] r.entry = "semantic" ->
            LET done == [r.action EXCEPT !.Result =
                           ResultMediaObject(r.output, EncodingFormatOf(r.action.Object))] IN
            [Return(r, <<>>, OkResponse(done)) EXCEPT !.action = done]
      [] OTHER ->
            LET out == StoreResult(<<>>, r.action, r.templateContent, r.parameters,
                                   r.output) IN
            [Return(r, out.ops, out.resp) EXCEPT !.action = out.action]

\* The requests served step by step.
StepFlatBodies ==
    {JMap([template |-> JStr(TextHello), parameters |-> JMap([Name |-> JStr("World")])]),
     JMap([template |-> JStr(TextChain), parameters |-> JMap([Name |-> Deep])]),
     JMap([template |-> JStr(TextChain), parameters |-> JMap([Name |-> JStr("User")])]),
     JMap([template |-> JStr(TextBroken), templateId |-> JStr(PathMissing)]),
     JMap([templateId |-> JStr(PathHello), parameters |-> JMap([Name |-> JStr("User")])]),
     JMap([templateId |-> JStr(PathMissing)]),
     JMap([parameters |-> JMap([Name |-> JStr("World")])]),
     JMap([parameters |-> JStr("x")])}

StepEnvelope(object, collection) ==
    JMap(Entries({<<"@type", JStr("ReplaceAction")>>, <<"object", JMap(object)>>}
                 \cup collection))

StepEnvelopes ==
    {StepEnvelope([text |-> JStr(TextHello)],
                  {<<"targetCollection", JMap([Name |-> JStr("World")])>>}),
     StepEnvelope([text |-> JStr(TextHello), properties |-> JMap([Name |-> JStr("User")])],
                  {<<"targetCollection", JMap([Name |-> JStr("World")])>>}),
     StepEnvelope([contentUrl |-> JStr(PathHello)],
                  {<<"targetCollection",
                     JList(<<Pair("Name", JStr("User")), Pair("Name", Deep)>>)>>}),
     StepEnvelope([text |-> JStr(TextChain)], {}),
     StepEnvelope([text |-> JStr(TextBroken)], {}),
     StepEnvelope([contentUrl |-> JStr(PathMissing)], {}),
     StepEnvelope([encodingFormat |-> JStr("text/html")], {}),
     StepEnvelope([text |-> JNum(7)], {}),
     JMap(Entries({<<"@type", JStr("UpdateAction")>>})),
     JMap(EmptyMap),
     JStr("not an object")}

StepFrames ==
    {Frame("render", b, NoLib) : b \in StepFlatBodies}
    \cup {Frame("semantic", b, NoLib) : b \in StepEnvelopes}
    \cup {Frame("rest", b, [props |-> m, errStatus |-> 400]) :
            b \in StepFlatBodies, m \in PropsModes}

StepInit ==
    /\ run \in [Reqs -> StepFrames]
    /\ pc = "steps" /\ entry = "" /\ req = Nil /\ lib = NoLib
    /\ action = Nil /\ templateContent = "" /\ parameters = Nil
    /\ ops = <<>> /\ resp = Nil

Unshared == UNCHANGED <<pc, entry, req, lib, action, templateContent, parameters, ops, resp>>

Bind(i) ==
    /\ run[i].pc = "received"
    /\ run' = [run EXCEPT ![i] = BindStep(run[i])]
    /\ Unshared

Convert(i) ==
    /\ run[i].pc = "convert"
    /\ run' = [run EXCEPT ![i] = ConvertStep(run[i])]
    /\ Unshared

Dispatch(i) ==
    /\ run[i].pc = "dispatch"
    /\ run' = [run EXCEPT ![i] = DispatchStep(run[i])]
    /\ Unshared

Unmarshal(i) ==
    /\ run[i].pc = "unmarshal"
    /\ run' = [run EXCEPT ![i] = UnmarshalStep(run[i])]
    /\ Unshared

Source(i) ==
    /\ run[i].pc = "source"
    /\ run' = [run EXCEPT ![i] = SourceStep(run[i])]
    /\ Unshared

ParseIt(i) ==
    /\ run[i].pc = "parse"
    /\ run' = [run EXCEPT ![i] = ParseStep(run[i])]
    /\ Unshared

RespondTo(i) ==
    /\ run[i].pc = "respond"
    /\ run' = [run EXCEPT ![i] = RespondStep(run[i])]
    /\ Unshared

\* parameters = ...: a write to the `parameters` local.
Params(i) ==
    /\ run[i].pc = "params"
    /\ LET res  == ParamsResult(run[i])
           mine == [Goto(run[i], <<"resolve">>, "parse") EXCEPT !.action = res.action] IN
       run' = [j \in Reqs |->
                 LET f == IF j = i THEN mine ELSE run[j] IN
                 IF j = ParametersOf(i) THEN [f EXCEPT !.parameters = res.params] ELSE f]
    /\ Unshared

\* tmpl.Execute(&output, parameters): a read of the `parameters` local
\* (of req.Parameters in handleRender).
ExecuteIt(i) ==
    /\ run[i].pc = "execute"
    /\ run' = [run EXCEPT ![i] =
                 ExecuteStep(run[i], IF run[i].entry = "render"
                                     THEN run[i].bound.Parameters
                                     ELSE run[ParametersOf(i)].parameters)]
    /\ Unshared

StepNext ==
    \E i \in Reqs :
        \/ Bind(i)
        \/ Convert(i)
        \/ Dispatch(i)
        \/ Unmarshal(i)
        \/ Source(i)
        \/ Params(i)
        \/ ParseIt(i)
        \/ ExecuteIt(i)
        \/ RespondTo(i)

SpecSteps == StepInit /\ [][StepNext]_vars

(***************************************************************************)
(* C14: in the registry-based handleSemanticReplace every request whose   *)
(* template parses and executes ends with a 200 response carrying the      *)
(* result, also when the action has no properties mapping; no successful   *)
(* render ends in a crash.  The handler stores the result with             *)
(* action.Properties["result"] = ... whether or not the mapping exists, so *)
(* this is violated by an action without properties.                       *)
(***************************************************************************)
RegistryRendered == entry \in {"rest", "registry"} /\ Rendered

C14_AlwaysResponds ==
    RegistryRendered
        => /\ ~Did("panic")
           /\ resp.status = 200
           /\ Has(StoredResult, "text")

(***************************************************************************)
(* C13: requests are isolated.  For two requests handled concurrently,     *)
(* under every interleaving of their steps, the response of each equals    *)
(* the response the handler gives that request when it runs alone, and a   *)
(* step of one request changes nothing of the other.                       *)
(***************************************************************************)
\* The request of frame r handled alone, start to finish.
Alone(r) ==
    CASE r.entry = "render"   -> handleRender(r.req)
      [] r.entry = "semantic" -> handleSemanticAction(r.req)
      [] OTHER                -> renderTemplateREST(r.req, r.lib)

Finished(i) == run # EmptyMap /\ run[i].pc = "done"

InFlight(i) == run # EmptyMap /\ run[i].pc \notin {"received", "done"}

OwnStep ==
    \A i \in Reqs : run'[i] # run[i] => \A j \in Reqs \ {i} : run'[j] = run[j]

C13_Isolated ==
    /\ [](\A i \in Reqs : Finished(i) => run[i].resp = Alone(run[i]).resp)
    /\ [][pc = "steps" => OwnStep]_vars

C13_Witness ==
    /\ Finished("r1") /\ run["r1"].entry = "rest" /\ run["r1"].resp.status = 200
    /\ run["r1"].parameters = JMap([Name |-> JStr("World")])
    /\ InFlight("r2") /\ run["r2"].entry = "semantic" /\ run["r2"].pc = "execute"
    /\ run["r2"].parameters = JMap([Name |-> Deep])

(***************************************************************************)
(* C12: a request served by handleRender or by handleSemanticAction /      *)
(* handleSemanticReplace of template.go is one linear pass.  Every step    *)
(* moves the handler forward (no stage runs twice, none runs out of        *)
(* order, nothing happens after the response); there is no response        *)
(* before the end and one at the end; a failure ends the request at the    *)
(* stage that failed with a 400 response whose message names that stage    *)
(* and which carries no output and no result; a template that does not     *)
(* parse is never executed and is reported as a parse failure.             *)
(***************************************************************************)
Cited(i) == run # EmptyMap /\ run[i].entry \in {"render", "semantic"}

PcRank(p) ==
    CASE p = "received"  -> 0
      [] p = "convert"   -> 1
      [] p = "dispatch"  -> 2
      [] p = "unmarshal" -> 3
      [] p = "source"    -> 4
      [] p = "params"    -> 5
      [] p = "parse"     -> 6
      [] p = "execute"   -> 7
      [] p = "respond"   -> 8
      [] OTHER           -> 9

OpRank(o) ==
    CASE o = "bind"      -> 0
      [] o = "dispatch"  -> 1
      [] o = "replace"   -> 2
      [] o = "unmarshal" -> 3
      [] o = "read"      -> 4
      [] o = "resolve"   -> 5
      [] o = "parse"     -> 6
      [] OTHER           -> 7

InOrder(o) == \A a, b \in 1..Len(o) : a < b => OpRank(o[a]) < OpRank(o[b])

Ran(r, stage) == \E k \in 1..Len(r.ops) : r.ops[k] = stage

LastOp(r) == IF r.ops = <<>> THEN "" ELSE r.ops[Len(r.ops)]

EarlyMessages ==
    {<<"invalid request">>, <<"invalid JSON-LD">>, <<"@type is required">>,
     <<"invalid action structure">>}
    \cup {UnsupportedMessage(t) : t \in {"UpdateAction"}}

\* The message of the error response names the stage the handler stopped at.
ErrorNamesStage(r) ==
    CASE StageOf(r.resp) = "file read"     -> LastOp(r) = "read"
      [] StageOf(r.resp) = "parse"         -> LastOp(r) = "parse"
      [] StageOf(r.resp) = "execute"       -> LastOp(r) = "execute"
      [] StageOf(r.resp) = "missing field" ->
            LastOp(r) \in {"bind", "unmarshal"} /\ SourceText(r) = "" /\ SourceRef(r) = ""
      [] OTHER ->
            r.resp.error \in EarlyMessages /\ LastOp(r) \in {"bind", "dispatch", "unmarshal"}

EndsWell(r) ==
    IF r.resp.status = 200
    THEN /\ LastOp(r) = "execute" /\ Ran(r, "parse")
         /\ Parse(r.templateContent).ok
         /\ r.resp.body # Nil
    ELSE /\ r.resp.status = 400
         /\ r.resp.body = Nil
         /\ r.output = ""
         /\ (r.action # Nil => r.action.Result = Nil)
         /\ ErrorNamesStage(r)
         /\ (Ran(r, "parse") /\ ~Parse(r.templateContent).ok
               => StageOf(r.resp) = "parse" /\ ~Ran(r, "execute"))

LinearPass(i) ==
    /\ InOrder(run[i].ops)
    /\ (run[i].resp = Nil) <=> (run[i].pc # "done")
    /\ run[i].pc = "done" => EndsWell(run[i])

Forward(i) == run'[i] # run[i] => PcRank(run'[i].pc) > PcRank(run[i].pc)

C12_LinearPass ==
    /\ [](\A i \in Reqs : Cited(i) => LinearPass(i))
    /\ [][\A i \in Reqs : Cited(i) => Forward(i)]_vars

C12_Witness ==
    /\ Finished("r1") /\ run["r1"].entry = "semantic"
    /\ run["r1"].templateContent = TextBroken
    /\ run["r1"].ops = <<"bind", "dispatch", "replace", "unmarshal", "resolve", "parse">>
    /\ run["r1"].resp = ErrorResponse(400, <<"failed to parse template: ", EngineMsg>>)
    /\ Finished("r2") /\ run["r2"].entry = "render" /\ run["r2"].resp.status = 200

====
